---- MODULE Spec2Model ----
(***************************************************************************)
(* telnetlogger: a telnet honeypot.  The model covers                      *)
(*   - recv_nvt_line, the byte-at-a-time NVT line reader,                  *)
(*   - handle_connection, the per-connection login/password loop,          *)
(*   - print_string / print_csv / ERROR_MSG, the output routines.          *)
(* Bytes are integers 0..255; buffers and streams are sequences of bytes.  *)
(***************************************************************************)
EXTENDS Integers, Sequences, FiniteSets, TLC

(***************************************************************************)
(* Telnet and ASCII byte values used by recv_nvt_line.                     *)
(***************************************************************************)
IAC == 255
DONT == 254
DO == 253
WONT == 252
WILL == 251
SB == 250
SE == 240
DEL == 127
CR == 13
LF == 10
NUL == 0
CtrlC == 3
CtrlD == 4
CtrlZ == 26

(***************************************************************************)
(* errno values and the retry limit of handle_connection.                  *)
(***************************************************************************)
EAGAIN == 11
ECONNRESET == 104
ENOPROTOOPT == 92
MaxTries == 5
RcvTimeoutSec == 60

(***************************************************************************)
(* Bounds of the model.                                                    *)
(*   LineBufSize  sizeof_buf handed to recv_nvt_line in SpecLine           *)
(*   LoginBufSize sizeof(login) = sizeof(password) in handle_connection    *)
(*                (256 in the source, cut down to hold "enable"/"system")  *)
(*   MaxFrag      single bytes the client sends ahead of a burst           *)
(*   MaxPayload   longest subnegotiation payload the client sends          *)
(*   NConn        connections accepted in SpecConc                         *)
(***************************************************************************)
LineBufSize == 4
LoginBufSize == 8
MaxFrag == 1
MaxPayload == 2
NConn == 2

VARIABLES
    pc,               \* control location of handle_connection
    state,            \* handle_connection's `state` (the caller's *in_state)
    tries,            \* handle_connection's `tries`
    hello,            \* what `hello` points to: "preamble" or "prompt"
    login,            \* login[0..offset) as filled by recv_nvt_line
    login_length,
    password,         \* password[0..offset)
    password_length,
    rcvtimeo,         \* SO_RCVTIMEO on the socket, 0 = none
    errno,
    fd_open,          \* the accepted socket is open
    args_live,        \* the ThreadArgs block has not been freed
    r_state,          \* recv_nvt_line's local `state`
    sizeof_buf,       \* recv_nvt_line's parameter
    ret,              \* value returned by the last recv_nvt_line call
    rxq,              \* bytes received from the peer, not yet read
    peer,             \* "open", "closed" (FIN received) or "reset"
    seg,              \* the segment the client sent last
    pre,              \* reader state when that segment arrived
    nseg,             \* segments sent during the current line read
    sent,             \* bytes sent to the client since the last segment/prompt
    n_preamble,       \* negotiation preambles sent
    n_login,          \* login prompts sent
    n_password,       \* password prompts sent
    n_incorrect,      \* "Login incorrect" messages sent
    stdout,           \* [n |-> lines written, last |-> the last line]
    stderr,           \* events written to the diagnostic stream
    mutex,            \* holders of the `output` mutex: {} or {thread}
    apc,              \* control location of daemon_thread
    cur,              \* the connection daemon_thread's `args` points to
    heap,             \* per connection: its ThreadArgs is "none", "live", "freed"
    tpc,              \* per connection: control location of its thread
    ttries,           \* per connection: its thread's `tries`
    last_write,       \* the last write to an output stream
    msgbuf,           \* error_msg's static buf: the thread whose text it holds
    acc               \* what daemon_thread's last read of args->handle found

handler_vars == <<pc, state, tries, hello, login, login_length, password,
                  password_length, rcvtimeo, errno, fd_open, args_live>>
reader_vars == <<r_state, sizeof_buf, ret>>
net_vars == <<rxq, peer, seg, pre, nseg, sent>>
count_vars == <<n_preamble, n_login, n_password, n_incorrect>>
out_vars == <<stdout, stderr>>
conc_vars == <<mutex, apc, cur, heap, tpc, ttries, last_write, msgbuf, acc>>

(***************************************************************************)
(* print_string: escape one credential field.                              *)
(***************************************************************************)
isprint(c) == c \in 32..126

HexDigit(n) == IF n < 10 THEN 48 + n ELSE 87 + n

MustEscape(c) ==
    \/ ~isprint(c)
    \/ c = 92       \* backslash
    \/ c = 60       \* <
    \/ c = 39       \* '
    \/ c = 32       \* space
    \/ c = 34       \* "
    \/ c = 44       \* ,

print_char(c) ==
    IF MustEscape(c)
    THEN <<92, 120, HexDigit(c \div 16), HexDigit(c % 16)>>
    ELSE <<c>>

RECURSIVE print_string(_)
print_string(str) ==
    IF str = <<>> THEN <<>>
    ELSE print_char(Head(str)) \o print_string(Tail(str))

(***************************************************************************)
(* print_csv: the line written to standard output for one attempt.         *)
(***************************************************************************)
print_csv(hostname, l, p) ==
    hostname \o <<44>> \o print_string(l) \o <<44>> \o print_string(p) \o <<LF>>

\* error_msg without its `case 11`
error_msg_no11(err) ==
    CASE err = ECONNRESET -> "TCP connection reset"
      [] err = 0 -> "TCP connection closed"
      [] OTHER -> "err#" \o ToString(err)

(***************************************************************************)
(* error_msg: reason text of an errno value.                               *)
(***************************************************************************)
error_msg(err) ==
    CASE err = ECONNRESET -> "TCP connection reset"
      [] err = EAGAIN -> "Timed out"
      [] err = 0 -> "TCP connection closed"
      [] OTHER -> "err#" \o ToString(err)

(***************************************************************************)
(* recv_nvt_line, one received byte c in parser state st with buffer b     *)
(* (b = buf[0..offset)).  Each operator yields                             *)
(*   [state, buf, done, out]: the new parser state, the new buffer, the    *)
(*   loop's `done` flag and the bytes sent back to the client.             *)
(***************************************************************************)
Step(st, b, d, o) == [state |-> st, buf |-> b, done |-> d, out |-> o]

\* append_byte storing without advancing: buf[offset] = c
append_byte_noadv(b, size, c) ==
    IF Len(b) + 1 < size
    THEN [buf |-> b, done |-> FALSE]
    ELSE [buf |-> b, done |-> TRUE]

\* append_byte with the bound off by one: offset < sizeof_buf
append_byte_offbyone(b, size, c) ==
    IF Len(b) < size
    THEN [buf |-> Append(b, c), done |-> FALSE]
    ELSE [buf |-> b, done |-> TRUE]

\* if (offset + 1 < sizeof_buf) buf[offset++] = c; else done = 1;
append_byte(b, size, c) ==
    IF Len(b) + 1 < size
    THEN [buf |-> Append(b, c), done |-> FALSE]
    ELSE [buf |-> b, done |-> TRUE]

\* the echo of an appended byte (state 0 only)
echo_byte(st, c) ==
    IF st = 0
    THEN IF c <= CtrlZ THEN <<94, c + 64>> ELSE <<c>>
    ELSE <<>>

\* the erase sequence "\b \b" (state 0 only)
erase_seq(st) == IF st = 0 THEN <<8, 32, 8>> ELSE <<>>

\* normal_step without the test `if (offset)` ahead of the backspace
normal_step_noguard(st, b, size, c) ==
    IF c = IAC THEN Step(2, b, FALSE, <<>>)
    ELSE IF c = NUL THEN Step(st, b, FALSE, <<>>)
    ELSE IF c = LF THEN Step(st, b, FALSE, <<>>)
    ELSE IF c = CR THEN Step(st, b, TRUE, <<>>)
    ELSE IF c = DEL THEN
        Step(st, SubSeq(b, 1, Len(b) - 1), FALSE, erase_seq(st))
    ELSE LET a == append_byte(b, size, c) IN
         Step(st, a.buf, a.done \/ c = CtrlC \/ c = CtrlD, echo_byte(st, c))

\* normal_step ending the line at LF as well as at CR
normal_step_lf(st, b, size, c) ==
    IF c = IAC THEN Step(2, b, FALSE, <<>>)
    ELSE IF c = NUL THEN Step(st, b, FALSE, <<>>)
    ELSE IF c = LF THEN Step(st, b, TRUE, <<>>)
    ELSE IF c = CR THEN Step(st, b, TRUE, <<>>)
    ELSE IF c = DEL THEN
        IF Len(b) > 0
        THEN Step(st, SubSeq(b, 1, Len(b) - 1), FALSE, erase_seq(st))
        ELSE Step(st, b, FALSE, <<>>)
    ELSE LET a == append_byte(b, size, c) IN
         Step(st, a.buf, a.done \/ c = CtrlC \/ c = CtrlD, echo_byte(st, c))

\* case 0: case 1:
normal_step(st, b, size, c) ==
    IF c = IAC THEN Step(2, b, FALSE, <<>>)
    ELSE IF c = NUL THEN Step(st, b, FALSE, <<>>)
    ELSE IF c = LF THEN Step(st, b, FALSE, <<>>)
    ELSE IF c = CR THEN Step(st, b, TRUE, <<>>)
    ELSE IF c = DEL THEN
        IF Len(b) > 0
        THEN Step(st, SubSeq(b, 1, Len(b) - 1), FALSE, erase_seq(st))
        ELSE Step(st, b, FALSE, <<>>)
    ELSE LET a == append_byte(b, size, c) IN
         Step(st, a.buf, a.done \/ c = CtrlC \/ c = CtrlD, echo_byte(st, c))

\* iac_step dropping the escaped IAC: case 255 without the append
iac_step_noappend(b, size, c) ==
    CASE c = SB -> Step(20, b, FALSE, <<>>)
      [] c = WILL -> Step(3, b, FALSE, <<>>)
      [] c = WONT -> Step(4, b, FALSE, <<>>)
      [] c = DO -> Step(5, b, FALSE, <<>>)
      [] c = DONT -> Step(6, b, FALSE, <<>>)
      [] OTHER -> Step(0, b, FALSE, <<>>)

\* case 2: IAC escape
iac_step(b, size, c) ==
    CASE c = SB -> Step(20, b, FALSE, <<>>)
      [] c = WILL -> Step(3, b, FALSE, <<>>)
      [] c = WONT -> Step(4, b, FALSE, <<>>)
      [] c = DO -> Step(5, b, FALSE, <<>>)
      [] c = DONT -> Step(6, b, FALSE, <<>>)
      [] c = IAC ->
            Step(0, IF Len(b) + 1 < size THEN Append(b, IAC) ELSE b, FALSE, <<>>)
      [] OTHER -> Step(0, b, FALSE, <<>>)

\* subneg_step handing an IAC of the payload to the IAC escape of case 2
subneg_step_escape(b, c) ==
    IF c = IAC THEN Step(2, b, FALSE, <<>>) ELSE Step(20, b, FALSE, <<>>)

\* case 20: inside a subnegotiation
subneg_step(b, c) ==
    IF c = IAC THEN Step(21, b, FALSE, <<>>) ELSE Step(20, b, FALSE, <<>>)

\* case 21: IAC seen inside a subnegotiation
subneg_iac_step(b, c) ==
    IF c = SE THEN Step(0, b, FALSE, <<>>) ELSE Step(20, b, FALSE, <<>>)

\* option_step taking an option byte 0xFF for a new IAC
option_step_iac(b, c) ==
    IF c = IAC THEN Step(2, b, FALSE, <<>>) ELSE Step(0, b, FALSE, <<>>)

\* case 3: case 4: case 5: case 6: the option byte
option_step(b, c) == Step(0, b, FALSE, <<>>)

\* switch (state)
nvt_step(st, b, size, c) ==
    CASE st \in {0, 1} -> normal_step(st, b, size, c)
      [] st = 2 -> iac_step(b, size, c)
      [] st = 20 -> subneg_step(b, c)
      [] st = 21 -> subneg_iac_step(b, c)
      [] st \in {3, 4, 5, 6} -> option_step(b, c)
      [] OTHER -> Step(0, b, FALSE, <<>>)

(***************************************************************************)
(* The client side of the connection.                                      *)
(***************************************************************************)
RecvPcs == {"recv_login", "recv_password"}

Buf == IF pc = "recv_login" THEN login ELSE password

offset == Len(Buf)

SeqsUpTo(S, n) == UNION {[1..k -> S] : k \in 0..n}

\* the bytes a client of the line reader sends one at a time
Bytes == {NUL, CtrlC, LF, CR, 97, DEL, SE, SB, WILL, WONT, DO, DONT, IAC}

\* bytes of typed lines: two letters, ctrl-C and backspace
LineBytes == {97, 98, CtrlC, DEL}

\* bytes of lines that overrun the buffer
FloodBytes == {97, 98, CtrlC}

\* option bytes of negotiations
OptBytes == {NUL, CtrlC, CR, 97, DEL, SE, IAC}

\* bytes of subnegotiation payloads
PayloadBytes == {CR, DEL, SE, IAC}

Verbs == {WILL, WONT, DO, DONT}

\* what follows a negotiation or subnegotiation in a burst
Trailer == <<98, CR>>

Lines == {s \o <<CR>> : s \in SeqsUpTo(LineBytes, LineBufSize - 1)}

Floods == [1..LineBufSize -> FloodBytes]

Negotiations == {<<IAC, v, x>> : v \in Verbs, x \in OptBytes}

Payloads == SeqsUpTo(PayloadBytes, MaxPayload)

Subnegotiations == {<<IAC, SB>> \o p \o <<IAC, SE>> : p \in Payloads}

\* an escaped 0xFF
Escapes == {<<IAC, IAC>>}

\* lines with bytes behind the CR, and with LF and NUL around the content
Pipelined ==
    { <<97, CR, 98, CR>>, <<97, CR, LF>>, <<CR, NUL, 97>>,
      <<LF, 97, NUL, 98, LF, CR, NUL>> }

Bursts ==
    Lines \cup Floods \cup Pipelined
          \cup {s \o Trailer : s \in Negotiations \cup Subnegotiations \cup Escapes}

\* a segment s arrives while the server is blocked in recv; n is the new
\* segment count
Arrive(s, n) ==
    /\ pc \in RecvPcs
    /\ peer = "open"
    /\ rxq = <<>>
    /\ rxq' = s
    /\ seg' = s
    /\ pre' = [state |-> r_state, buf |-> Buf, fresh |-> nseg = 0]
    /\ nseg' = n
    /\ sent' = <<>>
    /\ UNCHANGED conc_vars
    /\ UNCHANGED <<peer, handler_vars, reader_vars, count_vars, out_vars>>

\* the client sends one byte on its own (at most MaxFrag of them per line)
ClientByte ==
    /\ nseg < MaxFrag
    /\ \E b \in Bytes : Arrive(<<b>>, nseg + 1)

\* the client sends a burst, the last segment of the line
ClientBurst ==
    /\ nseg <= MaxFrag
    /\ \E s \in Bursts : Arrive(s, MaxFrag + 1)

\* the client closes its side: recv yields 0 once the queue is drained
ClientClose ==
    /\ pc \in RecvPcs
    /\ peer = "open"
    /\ peer' = "closed"
    /\ UNCHANGED conc_vars
    /\ UNCHANGED <<rxq, seg, pre, nseg, sent, handler_vars, reader_vars,
                   count_vars, out_vars>>

(***************************************************************************)
(* recv_nvt_line: one iteration of the receive loop.  A return is part of  *)
(* the iteration that causes it; the caller's location moves to            *)
(* "login_ret" / "password_ret" with the returned value in ret.            *)
(***************************************************************************)
RetPc == IF pc = "recv_login" THEN "login_ret" ELSE "password_ret"

SetBuf(b) ==
    IF pc = "recv_login"
    THEN login' = b /\ UNCHANGED password
    ELSE password' = b /\ UNCHANGED login

\* len = recv(...) = 1
RecvByte ==
    /\ pc \in RecvPcs
    /\ rxq # <<>>
    /\ LET r == nvt_step(r_state, Buf, sizeof_buf, Head(rxq)) IN
        /\ rxq' = Tail(rxq)
        /\ r_state' = r.state
        /\ SetBuf(r.buf)
        /\ sent' = sent \o r.out
        /\ IF r.done
           THEN /\ state' = r.state        \* *in_state = state
                /\ ret' = Len(r.buf)       \* return offset
                /\ pc' = RetPc
           ELSE UNCHANGED <<state, ret, pc>>
    /\ UNCHANGED conc_vars
    /\ UNCHANGED <<tries, hello, login_length, password_length, rcvtimeo, errno,
                   fd_open, args_live, sizeof_buf, peer, seg, pre, nseg,
                   count_vars, out_vars>>

\* len = recv(...) = 0: the peer has closed
RecvClosed ==
    /\ pc \in RecvPcs
    /\ rxq = <<>>
    /\ peer = "closed"
    /\ state' = r_state                    \* both branches store the state
    /\ ret' = offset                       \* return len (0), or break and return offset
    /\ pc' = RetPc
    /\ UNCHANGED conc_vars
    /\ UNCHANGED <<tries, hello, login, login_length, password, password_length,
                   rcvtimeo, errno, fd_open, args_live, r_state, sizeof_buf,
                   net_vars, count_vars, out_vars>>

\* len = recv(...) < 0 with errno e: return -1
RecvFail(e) ==
    /\ pc \in RecvPcs
    /\ errno' = e
    /\ ret' = -1
    /\ pc' = RetPc
    /\ UNCHANGED conc_vars
    /\ UNCHANGED <<state, tries, hello, login, login_length, password,
                   password_length, rcvtimeo, fd_open, args_live, r_state,
                   sizeof_buf, seg, pre, nseg, sent, count_vars, out_vars>>

\* no byte for SO_RCVTIMEO seconds
RecvTimeout ==
    /\ rxq = <<>>
    /\ peer = "open"
    /\ rcvtimeo > 0
    /\ RecvFail(EAGAIN)
    /\ UNCHANGED <<rxq, peer>>

\* the peer resets the connection; unread bytes are discarded
RecvReset ==
    /\ peer = "open"
    /\ RecvFail(ECONNRESET)
    /\ rxq' = <<>>
    /\ peer' = "reset"

(***************************************************************************)
(* SpecLine: one call of recv_nvt_line, entered in either Normal state,    *)
(* fed by a client that sends single bytes, typed lines, negotiations and  *)
(* subnegotiations.                                                        *)
(***************************************************************************)
sess_vars == <<handler_vars, reader_vars, net_vars, count_vars, out_vars>>

vars == <<sess_vars, conc_vars>>

Conns == 1..NConn

NoWrite == [who |-> 0, stream |-> "none", what |-> "none", holder |-> {}]

InitIdle ==
    /\ mutex = {}
    /\ apc = "accept"
    /\ cur = 0
    /\ heap = [i \in Conns |-> "none"]
    /\ tpc = [i \in Conns |-> "idle"]
    /\ ttries = [i \in Conns |-> 0]
    /\ last_write = NoWrite
    /\ msgbuf = 0
    /\ acc = "none"

NoLine == [n |-> 0, last |-> <<>>]

InitLine ==
    /\ pc = "recv_login"
    /\ state \in {0, 1}
    /\ r_state = state
    /\ tries = 0
    /\ hello = "preamble"
    /\ login = <<>>
    /\ login_length = 0
    /\ password = <<>>
    /\ password_length = 0
    /\ rcvtimeo = RcvTimeoutSec
    /\ errno = 0
    /\ fd_open = TRUE
    /\ args_live = TRUE
    /\ sizeof_buf = LineBufSize
    /\ ret = 0
    /\ rxq = <<>>
    /\ peer = "open"
    /\ seg = <<>>
    /\ pre = [state |-> state, buf |-> <<>>, fresh |-> TRUE]
    /\ nseg = 0
    /\ sent = <<>>
    /\ n_preamble = 0
    /\ n_login = 0
    /\ n_password = 0
    /\ n_incorrect = 0
    /\ stdout = NoLine
    /\ stderr = <<>>
    /\ InitIdle

NextLine ==
    \/ ClientByte
    \/ ClientBurst
    \/ ClientClose
    \/ RecvByte
    \/ RecvClosed
    \/ RecvTimeout
    \/ RecvReset

SpecLine == InitLine /\ [][NextLine]_vars

(***************************************************************************)
(* handle_connection: one accepted connection.                             *)
(***************************************************************************)
\* args->peername, "1.2.3.4"
Peername == <<49, 46, 50, 46, 51, 46, 52>>

\* ERROR_MSG(fmt, ...): one line on the diagnostic stream
ERROR_MSG(line) == stderr' = Append(stderr, line)

\* entry of recv_nvt_line: offset = 0, state = *in_state
EnterRead(st) ==
    /\ r_state' = st
    /\ sizeof_buf' = LoginBufSize
    /\ nseg' = 0
    /\ sent' = <<>>
    /\ seg' = <<>>
    /\ pre' = [state |-> st, buf |-> <<>>, fresh |-> TRUE]
    /\ UNCHANGED conc_vars
    /\ UNCHANGED <<ret, rxq, peer>>

\* setsockopt(SO_RCVTIMEO), which may fail with errno e
SetTimeout ==
    /\ pc = "start"
    /\ \/ /\ rcvtimeo' = RcvTimeoutSec
          /\ UNCHANGED <<errno, stderr>>
       \/ \E e \in {ENOPROTOOPT} :
          /\ errno' = e
          /\ ERROR_MSG(<<"setsockopt(SO_RECVTIMEO)", error_msg(e)>>)
          /\ UNCHANGED rcvtimeo
    /\ pc' = "again"
    /\ UNCHANGED conc_vars
    /\ UNCHANGED <<state, tries, hello, login, login_length, password,
                   password_length, fd_open, args_live, reader_vars, net_vars,
                   count_vars, stdout>>

\* again: send(hello); login_length = recv_nvt_line(login, ...)
Again ==
    /\ pc = "again"
    /\ n_preamble' = n_preamble + (IF hello = "preamble" THEN 1 ELSE 0)
    /\ n_login' = n_login + 1
    /\ login' = <<>>
    /\ EnterRead(state)
    /\ pc' = "recv_login"
    /\ UNCHANGED conc_vars
    /\ UNCHANGED <<state, tries, hello, login_length, password, password_length,
                   rcvtimeo, errno, fd_open, args_live, n_password, n_incorrect,
                   out_vars>>

\* if (login_length <= 0) goto error; send("Password: "); if (state == 0)
\* state = 1; password_length = recv_nvt_line(password, ...)
AfterLogin ==
    /\ pc = "login_ret"
    /\ login_length' = ret
    /\ IF ret <= 0
       THEN /\ pc' = "error"
            /\ UNCHANGED <<state, password, n_password, reader_vars, net_vars>>
       ELSE /\ n_password' = n_password + 1
            /\ state' = (IF state = 0 THEN 1 ELSE state)
            /\ password' = <<>>
            /\ EnterRead(state')
            /\ pc' = "recv_password"
    /\ UNCHANGED conc_vars
    /\ UNCHANGED <<tries, hello, login, password_length, rcvtimeo, errno,
                   fd_open, args_live, n_preamble, n_login, n_incorrect,
                   out_vars>>

\* if (password_length <= 0) goto error;
AfterPassword ==
    /\ pc = "password_ret"
    /\ password_length' = ret
    /\ pc' = (IF ret <= 0 THEN "error" ELSE "print_csv")
    /\ UNCHANGED conc_vars
    /\ UNCHANGED <<state, tries, hello, login, login_length, password, rcvtimeo,
                   errno, fd_open, args_live, reader_vars, net_vars, count_vars,
                   out_vars>>

\* print_csv(stdout, args->peername, login, login_length, password,
\* password_length)
PrintCsv ==
    /\ pc = "print_csv"
    /\ stdout' = [n |-> stdout.n + 1,
                  last |-> print_csv(Peername,
                                     SubSeq(login, 1, login_length),
                                     SubSeq(password, 1, password_length))]
    /\ pc' = "verdict"
    /\ UNCHANGED conc_vars
    /\ UNCHANGED <<state, tries, hello, login, login_length, password,
                   password_length, rcvtimeo, errno, fd_open, args_live,
                   reader_vars, net_vars, count_vars, stderr>>

\* Verdict without `hello = "\r\nlogin: "`
Verdict_keephello ==
    /\ pc = "verdict"
    /\ state' = (IF state = 1 THEN 0 ELSE state)
    /\ n_incorrect' = n_incorrect + 1
    /\ tries' = tries + 1
    /\ pc' = (IF tries < MaxTries THEN "again" ELSE "end")
    /\ UNCHANGED conc_vars
    /\ UNCHANGED <<hello, login, login_length, password, password_length,
                   rcvtimeo, errno, fd_open, args_live, reader_vars, net_vars,
                   n_preamble, n_login, n_password, out_vars>>

\* if (state == 1) state = 0; send("Login incorrect");
\* if (tries++ < 5) { sleep(2); hello = "\r\nlogin: "; goto again; }
Verdict ==
    /\ pc = "verdict"
    /\ state' = (IF state = 1 THEN 0 ELSE state)
    /\ n_incorrect' = n_incorrect + 1
    /\ tries' = tries + 1
    /\ IF tries < MaxTries
       THEN hello' = "prompt" /\ pc' = "again"
       ELSE UNCHANGED hello /\ pc' = "end"
    /\ UNCHANGED conc_vars
    /\ UNCHANGED <<login, login_length, password, password_length, rcvtimeo,
                   errno, fd_open, args_live, reader_vars, net_vars, n_preamble,
                   n_login, n_password, out_vars>>

\* Error returning instead of `goto end`
Error_return ==
    /\ pc = "error"
    /\ ERROR_MSG(<<"recv", error_msg(errno)>>)
    /\ pc' = "done"
    /\ UNCHANGED conc_vars
    /\ UNCHANGED <<state, tries, hello, login, login_length, password,
                   password_length, rcvtimeo, errno, fd_open, args_live,
                   reader_vars, net_vars, count_vars, stdout>>

\* error: ERROR_MSG("recv,%s,%s\n", args->peername, error_msg(errno)); goto end;
Error ==
    /\ pc = "error"
    /\ ERROR_MSG(<<"recv", error_msg(errno)>>)
    /\ pc' = "end"
    /\ UNCHANGED conc_vars
    /\ UNCHANGED <<state, tries, hello, login, login_length, password,
                   password_length, rcvtimeo, errno, fd_open, args_live,
                   reader_vars, net_vars, count_vars, stdout>>

\* end: closesocket(fd); ERROR_MSG("close,%s\n", args->peername); free(args);
End ==
    /\ pc = "end"
    /\ fd_open' = FALSE
    /\ ERROR_MSG(<<"close", "">>)
    /\ args_live' = FALSE
    /\ pc' = "done"
    /\ UNCHANGED conc_vars
    /\ UNCHANGED <<state, tries, hello, login, login_length, password,
                   password_length, rcvtimeo, errno, reader_vars, net_vars,
                   count_vars, stdout>>

(***************************************************************************)
(* The client of a session sends one segment per prompt: a line, part of a *)
(* line, or telnet commands ahead of a line.                               *)
(***************************************************************************)
Str_shell == <<115, 104, 101, 108, 108>>
Str_sh == <<115, 104>>
Str_enable == <<101, 110, 97, 98, 108, 101>>
Str_system == <<115, 121, 115, 116, 101, 109>>

ClientLines ==
    { Str_shell \o <<CR>>,
      Str_sh \o <<CR>>,
      Str_enable \o <<CR>>,
      Str_system \o <<CR>>,
      <<97, 44, 62, CR>>,                  \* a,>
      <<CR>>,                              \* an empty line
      <<114, 111>>,                        \* "ro", no CR
      <<114, IAC, WILL>>,                  \* "r", then half a negotiation
      <<IAC, SB, 24>>,                     \* an open subnegotiation
      <<IAC, DO, 1>> \o Str_sh \o <<CR>> } \* a negotiation ahead of "sh"

ClientLine ==
    /\ nseg = 0
    /\ \E s \in ClientLines : Arrive(s, MaxFrag + 1)

Init ==
    /\ pc = "start"
    /\ state = 0
    /\ r_state = 0
    /\ tries = 0
    /\ hello = "preamble"
    /\ login = <<>>
    /\ login_length = 0
    /\ password = <<>>
    /\ password_length = 0
    /\ rcvtimeo = 0
    /\ errno = 0
    /\ fd_open = TRUE
    /\ args_live = TRUE
    /\ sizeof_buf = LoginBufSize
    /\ ret = 0
    /\ rxq = <<>>
    /\ peer = "open"
    /\ seg = <<>>
    /\ pre = [state |-> 0, buf |-> <<>>, fresh |-> TRUE]
    /\ nseg = 0
    /\ sent = <<>>
    /\ n_preamble = 0
    /\ n_login = 0
    /\ n_password = 0
    /\ n_incorrect = 0
    /\ stdout = NoLine
    /\ stderr = <<<<"connect", "">>>>
    /\ InitIdle

\* the steps of the session's thread and of the kernel on its behalf
ServerStep ==
    \/ SetTimeout
    \/ Again
    \/ RecvByte
    \/ RecvClosed
    \/ RecvTimeout
    \/ AfterLogin
    \/ AfterPassword
    \/ PrintCsv
    \/ Verdict
    \/ Error
    \/ End

Next ==
    \/ ServerStep
    \/ ClientLine
    \/ ClientClose
    \/ RecvReset

Spec == Init /\ [][Next]_vars

\* the thread is scheduled and the kernel's receive timer fires
FairSpec == Spec /\ WF_vars(ServerStep)

(***************************************************************************)
(* SpecConc: daemon_thread and the threads it creates, reduced to their    *)
(* accesses to the output streams, the output mutex and the ThreadArgs     *)
(* blocks.  A line read is one step that succeeds or fails.  Threads are   *)
(* numbered 1..NConn; writer 0 is daemon_thread.                           *)
(***************************************************************************)
\* fprintf/vfprintf by writer w of a line (what) on a stream
Write(w, stream, what) ==
    last_write' = [who |-> w, stream |-> stream, what |-> what, holder |-> mutex]

\* newfd = accept(fd, 0, 0); args = malloc(...); getpeername; getnameinfo
Accept ==
    /\ apc = "accept"
    /\ cur < NConn
    /\ cur' = cur + 1
    /\ heap' = [heap EXCEPT ![cur + 1] = "live"]
    /\ apc' = "connect"
    /\ UNCHANGED <<mutex, tpc, ttries, last_write, msgbuf, acc, sess_vars>>

\* accept fails: ERROR_MSG("accept(%u): %s\n"); break; closesocket(fd)
AcceptFail ==
    /\ apc = "accept"
    /\ Write(0, "stderr", "accept")
    /\ apc' = "closed"
    /\ UNCHANGED <<mutex, cur, heap, tpc, ttries, msgbuf, acc, sess_vars>>

\* fprintf(stderr, "connect,%s\n", args->peername)
LogConnect ==
    /\ apc = "connect"
    /\ Write(0, "stderr", "connect")
    /\ apc' = "create"
    /\ UNCHANGED <<mutex, cur, heap, tpc, ttries, msgbuf, acc, sess_vars>>

\* pthread_create(&args->handle, 0, handle_connection, args)
Create ==
    /\ apc = "create"
    /\ tpc' = [tpc EXCEPT ![cur] = "start"]
    /\ apc' = "detach"
    /\ UNCHANGED <<mutex, cur, heap, ttries, last_write, msgbuf, acc, sess_vars>>

\* pthread_detach(args->handle): args->handle is read from the ThreadArgs,
\* which the thread may have freed by now.  A read of freed storage yields
\* the old handle or anything else, and pthread_detach of a value that is no
\* thread may end the process.
Detach ==
    /\ apc = "detach"
    /\ acc' = heap[cur]
    /\ IF heap[cur] = "live"
       THEN apc' = "accept"
       ELSE apc' \in {"accept", "crashed"}
    /\ UNCHANGED <<mutex, cur, heap, tpc, ttries, last_write, msgbuf, sess_vars>>

\* thread t moves on to l; no thread runs once the process has ended
Goto(t, l) ==
    /\ apc # "crashed"
    /\ tpc' = [tpc EXCEPT ![t] = l]

\* setsockopt(SO_RCVTIMEO)
TStart(t) ==
    /\ tpc[t] = "start"
    /\ Goto(t, "again")
    /\ UNCHANGED <<mutex, apc, cur, heap, ttries, last_write, msgbuf, acc, sess_vars>>

\* send(hello); login_length = recv_nvt_line(...); if (<= 0) goto error, with
\* an errno error_msg has a literal for ("error") or not ("format")
TLogin(t) ==
    /\ tpc[t] = "again"
    /\ \E l \in {"password", "error", "format"} : Goto(t, l)
    /\ UNCHANGED <<mutex, apc, cur, heap, ttries, last_write, msgbuf, acc, sess_vars>>

\* send("Password: "); password_length = recv_nvt_line(...); if (<= 0) goto error
TPassword(t) ==
    /\ tpc[t] = "password"
    /\ \E l \in {"lock", "error", "format"} : Goto(t, l)
    /\ UNCHANGED <<mutex, apc, cur, heap, ttries, last_write, msgbuf, acc, sess_vars>>

\* print_csv: pthread_mutex_lock(&output)
TLock(t) ==
    /\ tpc[t] = "lock"
    /\ mutex = {}
    /\ mutex' = {t}
    /\ Goto(t, "csv")
    /\ UNCHANGED <<apc, cur, heap, ttries, last_write, msgbuf, acc, sess_vars>>

\* print_csv: the fprintf calls of one line, and fflush
TWriteCsv(t) ==
    /\ tpc[t] = "csv"
    /\ Write(t, "stdout", "record")
    /\ Goto(t, "unlock")
    /\ UNCHANGED <<mutex, apc, cur, heap, ttries, msgbuf, acc, sess_vars>>

\* print_csv: pthread_mutex_unlock(&output)
TUnlock(t) ==
    /\ tpc[t] = "unlock"
    /\ mutex' = mutex \ {t}
    /\ Goto(t, "verdict")
    /\ UNCHANGED <<apc, cur, heap, ttries, last_write, msgbuf, acc, sess_vars>>

\* send("Login incorrect"); if (tries++ < 5) goto again;
TVerdict(t) ==
    /\ tpc[t] = "verdict"
    /\ ttries' = [ttries EXCEPT ![t] = @ + 1]
    /\ Goto(t, IF ttries[t] < MaxTries THEN "again" ELSE "end")
    /\ UNCHANGED <<mutex, apc, cur, heap, last_write, msgbuf, acc, sess_vars>>

\* error: error_msg(errno) for an errno it has no text for:
\* snprintf(buf, sizeof(buf), "err#%u", err) into its static buf
TFormat(t) ==
    /\ tpc[t] = "format"
    /\ msgbuf' = t
    /\ Goto(t, "error_buf")
    /\ UNCHANGED <<mutex, apc, cur, heap, ttries, last_write, acc, sess_vars>>

\* ERROR_MSG("recv,%s,%s\n", ...) printing the static buf; goto end
TErrorBuf(t) ==
    /\ tpc[t] = "error_buf"
    /\ Write(t, "stderr", "recv")
    /\ Goto(t, "end")
    /\ UNCHANGED <<mutex, apc, cur, heap, ttries, msgbuf, acc, sess_vars>>

\* error: ERROR_MSG("recv,%s,%s\n", ...) with a literal reason; goto end
TError(t) ==
    /\ tpc[t] = "error"
    /\ Write(t, "stderr", "recv")
    /\ Goto(t, "end")
    /\ UNCHANGED <<mutex, apc, cur, heap, ttries, msgbuf, acc, sess_vars>>

\* end: closesocket(fd); ERROR_MSG("close,%s\n", ...); free(args)
TEnd(t) ==
    /\ tpc[t] = "end"
    /\ Write(t, "stderr", "close")
    /\ heap' = [heap EXCEPT ![t] = "freed"]
    /\ Goto(t, "done")
    /\ UNCHANGED <<mutex, apc, cur, ttries, msgbuf, acc, sess_vars>>

NextConc ==
    \/ Accept
    \/ AcceptFail
    \/ LogConnect
    \/ Create
    \/ Detach
    \/ \E t \in Conns :
        \/ TStart(t)
        \/ TLogin(t)
        \/ TPassword(t)
        \/ TLock(t)
        \/ TWriteCsv(t)
        \/ TUnlock(t)
        \/ TVerdict(t)
        \/ TFormat(t)
        \/ TErrorBuf(t)
        \/ TError(t)
        \/ TEnd(t)

\* main: pthread_mutex_init(&output, 0); daemon_thread(port)
InitConc ==
    /\ pc = "done"
    /\ state = 0
    /\ r_state = 0
    /\ tries = 0
    /\ hello = "preamble"
    /\ login = <<>>
    /\ login_length = 0
    /\ password = <<>>
    /\ password_length = 0
    /\ rcvtimeo = 0
    /\ errno = 0
    /\ fd_open = FALSE
    /\ args_live = FALSE
    /\ sizeof_buf = LoginBufSize
    /\ ret = 0
    /\ rxq = <<>>
    /\ peer = "open"
    /\ seg = <<>>
    /\ pre = [state |-> 0, buf |-> <<>>, fresh |-> TRUE]
    /\ nseg = 0
    /\ sent = <<>>
    /\ n_preamble = 0
    /\ n_login = 0
    /\ n_password = 0
    /\ n_incorrect = 0
    /\ stdout = NoLine
    /\ stderr = <<>>
    /\ InitIdle

SpecConc == InitConc /\ [][NextConc]_vars

(***************************************************************************)
(* Properties of the line reader, checked under SpecLine.                  *)
(***************************************************************************)
\* the number of content bytes a buffer of sizeof_buf bytes collects
Capacity == sizeof_buf - 1

Has(s, S) == \E i \in 1..Len(s) : s[i] \in S

\* the line read has returned and no recv call failed
ReadReturned == pc = "login_ret" /\ errno = 0

\* the last segment is s followed by CR and is all this call was fed
FedLine == pre.fresh /\ seg # <<>> /\ seg[Len(seg)] = CR

LineOf(sg) == SubSeq(sg, 1, Len(sg) - 1)

\* C4 as stated: a line s without 0xFF, CR, LF and NUL, shorter than the
\* capacity, then CR, is returned as exactly s.
C4_VerbatimAsStated ==
    (ReadReturned /\ FedLine
        /\ ~Has(LineOf(seg), {IAC, CR, LF, NUL})
        /\ Len(LineOf(seg)) < Capacity)
    => (login = LineOf(seg) /\ ret = Len(LineOf(seg)))

\* C4 amended: a line s without 0xFF, CR, LF, NUL, 0x7F, 0x03 and 0x04,
\* shorter than the capacity, then CR, is returned as exactly s: same bytes,
\* same order, same length.
C4_Verbatim ==
    (ReadReturned /\ FedLine
        /\ ~Has(LineOf(seg), {IAC, CR, LF, NUL, DEL, CtrlC, CtrlD})
        /\ Len(LineOf(seg)) < Capacity)
    => (login = LineOf(seg) /\ ret = Len(LineOf(seg)))

C4_Witness ==
    /\ ReadReturned /\ FedLine
    /\ seg = <<97, 98, CR>>
    /\ Len(LineOf(seg)) < Capacity
    /\ login = <<97, 98>>
    /\ ret = 2

\* the last segment is IAC verb x followed by the trailer, and it arrived
\* with the parser in Normal
IsNegotiation ==
    /\ Len(seg) = 3 + Len(Trailer)
    /\ seg[1] = IAC
    /\ seg[2] \in Verbs
    /\ SubSeq(seg, 4, Len(seg)) = Trailer
    /\ pre.state \in {0, 1}

\* the trailer "b CR" read in Normal after content u: the line u b, cut at
\* the capacity
AfterTrailer(u) ==
    /\ pc = "login_ret"
    /\ login = (IF Len(u) < Capacity THEN Append(u, 98) ELSE u)
    /\ ret = Len(login)

\* C5: IAC WILL/WONT/DO/DONT x, for any option byte x, is consumed whole: while
\* its three bytes are read the buffer keeps its content, the line does not
\* end and nothing is sent; after the third byte the parser is in Normal, so
\* the byte that follows is content.
C5_NegotiationConsumed ==
    (IsNegotiation /\ errno = 0) =>
        /\ Len(rxq) >= Len(Trailer) =>
              (pc = "recv_login" /\ login = pre.buf /\ sent = <<>>)
        /\ Len(rxq) = Len(Trailer) => r_state = 0
        /\ Len(rxq) = 0 => AfterTrailer(pre.buf)

C5_Witness ==
    /\ IsNegotiation /\ errno = 0
    /\ seg[2] = DONT /\ seg[3] = IAC
    /\ pre.buf = <<97>>
    /\ rxq = <<>>
    /\ pc = "login_ret"
    /\ login = <<97, 98>>

\* the last segment is IAC SB payload IAC SE followed by the trailer, and it
\* arrived with the parser in Normal
IsSubnegotiation ==
    /\ Len(seg) >= 4 + Len(Trailer)
    /\ seg[1] = IAC
    /\ seg[2] = SB
    /\ seg[Len(seg) - Len(Trailer) - 1] = IAC
    /\ seg[Len(seg) - Len(Trailer)] = SE
    /\ SubSeq(seg, Len(seg) - Len(Trailer) + 1, Len(seg)) = Trailer
    /\ pre.state \in {0, 1}

PayloadOf(sg) == SubSeq(sg, 3, Len(sg) - Len(Trailer) - 2)

\* every IAC of the payload is followed by a payload byte other than SE
RECURSIVE PairedPayload(_)
PairedPayload(p) ==
    IF p = <<>> THEN TRUE
    ELSE IF Head(p) # IAC THEN PairedPayload(Tail(p))
    ELSE Len(p) >= 2 /\ p[2] # SE /\ PairedPayload(Tail(Tail(p)))

SubnegotiationAbsorbed ==
    /\ Len(rxq) >= Len(Trailer) =>
          (pc = "recv_login" /\ login = pre.buf /\ sent = <<>>)
    /\ Len(rxq) = Len(Trailer) => r_state = 0
    /\ Len(rxq) = 0 => AfterTrailer(pre.buf)

\* C6 as stated: IAC SB payload IAC SE with any payload bytes adds nothing to
\* the buffer, ends or erases nothing, and the content before and after it is
\* returned unchanged.
C6_SubnegAsStated ==
    (IsSubnegotiation /\ errno = 0) => SubnegotiationAbsorbed

\* C6 amended: the same, for payloads in which every IAC is followed by
\* another payload byte that is not SE.
C6_Subneg ==
    (IsSubnegotiation /\ errno = 0 /\ PairedPayload(PayloadOf(seg)))
        => SubnegotiationAbsorbed

C6_Witness ==
    /\ IsSubnegotiation /\ errno = 0
    /\ PayloadOf(seg) = <<IAC, CR>>
    /\ pre.buf = <<97>>
    /\ rxq = <<>>
    /\ pc = "login_ret"
    /\ login = <<97, 98>>
    /\ ret = 2

\* the last segment is Capacity + 1 content bytes without CR and is all this
\* call was fed
FedFlood ==
    /\ pre.fresh
    /\ Len(seg) = Capacity + 1
    /\ ~Has(seg, {IAC, CR, LF, NUL, DEL})

\* C7 as stated: Capacity + 1 content bytes without CR end the line at the
\* capacity: the call returns Capacity (> 0) with the first Capacity bytes,
\* never holds more than Capacity bytes, and returns no error.
C7_OverflowAsStated ==
    /\ Len(Buf) <= Capacity
    /\ (ReadReturned /\ FedFlood) =>
          (ret = Capacity /\ ret > 0 /\ login = SubSeq(seg, 1, Capacity))

\* C7 amended: the same, for content bytes other than 0x03 and 0x04.
C7_Overflow ==
    /\ Len(Buf) <= Capacity
    /\ (ReadReturned /\ FedFlood /\ ~Has(seg, {CtrlC, CtrlD})) =>
          (ret = Capacity /\ ret > 0 /\ login = SubSeq(seg, 1, Capacity))

C7_Witness ==
    /\ ReadReturned /\ FedFlood
    /\ ~Has(seg, {CtrlC, CtrlD})
    /\ seg[1] = 97 /\ seg[2] = 98
    /\ rxq = <<>>
    /\ ret = Capacity
    /\ Len(login) = Capacity

\* the last segment is IAC IAC followed by the trailer, and it arrived with
\* the parser in Normal and room in the buffer
IsEscape ==
    /\ seg = <<IAC, IAC>> \o Trailer
    /\ pre.state \in {0, 1}
    /\ Len(pre.buf) < Capacity
    /\ errno = 0

\* C11: IAC IAC read in Normal with room in the buffer appends exactly one
\* byte 0xFF: after the first IAC the buffer is unchanged, after the second it
\* is the old content followed by 0xFF, the parser is in Normal, the line has
\* not ended, and the byte that follows is content.
C11_EscapedIac ==
    IsEscape =>
        /\ Len(rxq) = Len(Trailer) + 1 =>
              (pc = "recv_login" /\ login = pre.buf /\ r_state = 2)
        /\ Len(rxq) = Len(Trailer) =>
              (pc = "recv_login" /\ login = Append(pre.buf, IAC) /\ r_state = 0)
        /\ Len(rxq) = 0 => AfterTrailer(Append(pre.buf, IAC))

C11_Witness ==
    /\ IsEscape
    /\ pre.buf = <<97>>
    /\ pre.state = 1
    /\ Len(rxq) = Len(Trailer)
    /\ pc = "recv_login"
    /\ login = <<97, IAC>>
    /\ r_state = 0

\* this step is a recv that yields byte c with the parser in Normal
Reads(c) ==
    /\ pc = "recv_login"
    /\ r_state \in {0, 1}
    /\ rxq # <<>>
    /\ Head(rxq) = c
    /\ peer' = peer

\* C12: a backspace (0x7F) read in Normal removes exactly the last buffered
\* byte when there is one ("ab" then 0x7F leaves "a") and changes nothing
\* when the buffer is empty: the buffer stays empty and nothing is sent; the
\* line read goes on, and the collected length is never negative.
C12_Backspace ==
    /\ [](Len(login) >= 0 /\ (pc = "login_ret" /\ errno = 0 => ret >= 0))
    /\ [][Reads(DEL) =>
            /\ pc' = pc
            /\ r_state' = r_state
            /\ rxq' = Tail(rxq)
            /\ IF login # <<>>
               THEN login' = SubSeq(login, 1, Len(login) - 1)
               ELSE login' = login /\ sent' = sent]_vars

\* "ab", backspace: "a"
C12_Witness ==
    /\ pre.fresh
    /\ seg = <<97, 98, DEL, CR>>
    /\ rxq = <<CR>>
    /\ pc = "recv_login"
    /\ login = <<97>>

\* C13: a CR read in Normal ends the line: the call returns the bytes
\* collected before it, and the bytes behind the CR stay unread; an LF or a
\* NUL read in Normal neither ends the line nor is appended.
C13_CrTerminates ==
    /\ [][Reads(CR) =>
            /\ pc' = "login_ret"
            /\ login' = login
            /\ ret' = Len(login)
            /\ rxq' = Tail(rxq)]_vars
    /\ [][(Reads(LF) \/ Reads(NUL)) =>
            /\ pc' = pc
            /\ login' = login
            /\ r_state' = r_state
            /\ rxq' = Tail(rxq)]_vars
    /\ [](pc = "login_ret" => ~Has(login, {CR, LF, NUL}))

\* "a" LF NUL "b" ... CR NUL: the line "ab" is returned, the NUL behind the CR
\* is left unread
C13_Witness ==
    /\ pre.fresh
    /\ seg = <<LF, 97, NUL, 98, LF, CR, NUL>>
    /\ pc = "login_ret"
    /\ errno = 0
    /\ login = <<97, 98>>
    /\ ret = 2
    /\ rxq = <<NUL>>

\* C16: when recv yields zero or a negative value with nothing collected in
\* this call, the call returns that value (0 for the peer's close, -1 for an
\* error or timeout) and the caller's state holds the parser state reached by
\* the bytes consumed, in both cases.
C16_StateStored ==
    (pc = "login_ret" /\ login = <<>> /\ ret <= 0) =>
        /\ ret = (IF errno = 0 THEN 0 ELSE -1)
        /\ state = r_state

\* C17: when recv yields zero or a negative value after content was collected
\* in this call, the call returns the positive count of the collected bytes,
\* not a closed or error outcome.
C17_PartialLineKept ==
    (pc = "login_ret" /\ login # <<>>) => (ret = Len(login) /\ ret > 0)

(***************************************************************************)
(* Properties of a session, checked under Spec and FairSpec.               *)
(***************************************************************************)
\* C1: a session sends at most 5 login prompts and at most 5 "Login
\* incorrect" verdicts, and is closed after the 5th verdict without a 6th
\* prompt.
C1_FiveAttempts ==
    /\ n_login <= 5
    /\ n_incorrect <= 5
    /\ (n_incorrect = 5 /\ pc # "verdict") => pc \in {"end", "done"}

Suppressed(l, p) ==
    \/ l = Str_shell /\ p = Str_sh
    \/ l = Str_enable /\ p = Str_system

\* C2: a completed attempt shell/sh or enable/system writes no line to
\* standard output; every other completed attempt writes exactly one line
\* peer,username,password.
C2_Suppression ==
    [][pc = "print_csv" =>
         IF Suppressed(login, password)
         THEN stdout' = stdout
         ELSE /\ stdout'.n = stdout.n + 1
              /\ stdout'.last = print_csv(Peername, login, password)]_vars

\* C3: while the password is read nothing is sent to the client, whatever
\* bytes arrive, telnet commands ahead of the password included.
C3_NoEchoOfPassword ==
    pc \in {"recv_password", "password_ret"} => sent = <<>>

\* the escape set of C8: non-printable, backslash, < and >, quotes, space
\* and comma
ClaimedEscape(c) ==
    \/ ~isprint(c)
    \/ c \in {92, 60, 62, 39, 34, 32, 44}

RECURSIVE ClaimedField(_)
ClaimedField(str) ==
    IF str = <<>> THEN <<>>
    ELSE (IF ClaimedEscape(Head(str))
          THEN <<92, 120, HexDigit(Head(str) \div 16), HexDigit(Head(str) % 16)>>
          ELSE <<Head(str)>>)
         \o ClaimedField(Tail(str))

Commas(s) == Cardinality({i \in 1..Len(s) : s[i] = 44})

\* C8: in the logged line every non-printable byte, backslash, angle
\* bracket, quote, space and comma of the username and of the password is
\* written as \xHH and every other byte unchanged, so that the line holds
\* exactly two commas.
C8_Escaping ==
    pc = "verdict" =>
        /\ stdout.last = Peername \o <<44>> \o ClaimedField(login) \o <<44>>
                            \o ClaimedField(password) \o <<LF>>
        /\ Commas(stdout.last) = 2

\* C14: what a session sends follows one order.  The negotiation preamble is
\* sent once, together with the first login prompt, and later attempts send
\* the login prompt alone; a password prompt follows each login prompt and
\* only a username that was read; "Login incorrect" follows each attempt whose
\* two lines were read, after the pair was handed to print_csv; and the
\* session sends nothing else than these and the echoes.
C14_PromptOrder ==
    /\ n_preamble = (IF n_login = 0 THEN 0 ELSE 1)
    /\ pc \in {"start", "again"} =>
          (n_login = n_incorrect /\ n_password = n_incorrect)
    /\ pc \in {"recv_login", "login_ret"} =>
          (n_login = n_incorrect + 1 /\ n_password = n_incorrect)
    /\ pc \in {"recv_password", "password_ret", "print_csv", "verdict"} =>
          (n_login = n_incorrect + 1 /\ n_password = n_login /\ login_length > 0)
    /\ n_password \in {n_incorrect, n_incorrect + 1}
    /\ n_login \in {n_incorrect, n_incorrect + 1}
    /\ IF pc = "verdict"
       THEN stdout.n = n_incorrect + 1 /\ password_length > 0
       ELSE stdout.n = n_incorrect
    /\ sent # <<>> => seg # <<>>         \* echoes answer received bytes

\* the third attempt, at its password prompt
C14_Witness ==
    /\ pc = "recv_password"
    /\ n_preamble = 1
    /\ n_login = 3
    /\ n_password = 3
    /\ n_incorrect = 2
    /\ stdout.n = 2

\* C15: the session takes the error path out of a username or password read
\* only when recv reported an error or timeout (the read returned -1) or the
\* peer's close (it returned 0 with the peer closed); a line completed by CR,
\* an empty one included, never leads there.
C15_CloseOnlyOnReadFailure ==
    pc = "error" => (ret = -1 \/ (ret = 0 /\ peer = "closed"))

\* the read is blocked: nothing to read, the peer silent, a timeout set
Blocked == pc \in RecvPcs /\ rxq = <<>> /\ peer = "open" /\ rcvtimeo > 0

\* the read has timed out
TimedOut == pc \in {"login_ret", "password_ret"} /\ ret = -1 /\ errno = EAGAIN

TimeoutLogged ==
    /\ Len(stderr) >= 2
    /\ stderr[Len(stderr) - 1] = <<"recv", "Timed out">>
    /\ stderr[Len(stderr)] = <<"close", "">>

\* C10: a read that gets no byte for the idle timeout does not stay blocked;
\* once it has timed out, wherever in the line or negotiation, the session
\* logs a recv event with the timeout reason and reaches Closed.
C10_IdleTimeout ==
    /\ Blocked ~> (pc \notin RecvPcs)
    /\ TimedOut ~> (pc = "done" /\ ~fd_open /\ TimeoutLogged)

\* a timeout in the middle of a negotiation, with content collected
C10_Witness ==
    /\ pc = "done"
    /\ TimeoutLogged
    /\ login = <<114>>
    /\ r_state = 3
    /\ ret = -1

\* the close events logged so far
CloseEvents == {i \in 1..Len(stderr) : stderr[i][1] = "close"}

\* C18: a session whose peer has disconnected or reset the connection, or
\* whose reads have the idle timeout, reaches Closed; until then its socket is
\* open, its ThreadArgs allocated and no close event logged; in Closed the
\* socket is closed, the ThreadArgs released and exactly one close event
\* logged, the last event of the session; and from Closed the session takes
\* no further step.
C18_SessionCloses ==
    /\ [](pc # "done" => (fd_open /\ args_live /\ CloseEvents = {}))
    /\ [](pc = "done" =>
            /\ ~fd_open
            /\ ~args_live
            /\ CloseEvents = {Len(stderr)})
    /\ [][pc = "done" => UNCHANGED vars]_vars
    /\ (peer # "open" \/ rcvtimeo > 0) ~> (pc = "done")

\* closed by the retry limit: connect and close are the only events
C18_Witness ==
    /\ pc = "done"
    /\ tries = MaxTries + 1
    /\ ~fd_open
    /\ ~args_live
    /\ stderr = << <<"connect", "">>, <<"close", "">> >>

(***************************************************************************)
(* Properties of the threads, checked under SpecConc.                      *)
(***************************************************************************)
\* C19: daemon_thread does not touch a connection's ThreadArgs once it has
\* created the thread: whenever it reads the thread handle out of it to detach
\* the thread, the ThreadArgs has not been freed by the thread, in every
\* interleaving.
C19_NoAccessAfterRelease ==
    /\ acc # "freed"
    /\ apc # "crashed"

\* C20: no buffer other than the output streams is shared between threads:
\* the reason text a thread is about to log in its recv event is the one it
\* formatted itself.
C20_NoSharedBuffer ==
    \A t \in Conns : tpc[t] = "error_buf" => msgbuf = t

\* C9: every write of a line to standard output or to the diagnostic stream
\* (credential records; connect, close and recv events) is made by a writer
\* that holds the output lock.
C9_WritesUnderLock ==
    last_write.what \in {"record", "connect", "close", "recv"}
        => last_write.holder = {last_write.who}

====
